---- MODULE Spec2Model ----
(***************************************************************************)
(* ATS Resume Expert (app.py): a Streamlit script that rasterizes an       *)
(* uploaded PDF into page payloads cached in st.session_state and, on      *)
(* request, sends [prompt, job description?, pages...] to a generative     *)
(* model.  Every user interaction re-executes the whole script from line 1 *)
(* against the persistent session state; one action below is one such     *)
(* script run.                                                             *)
(***************************************************************************)
EXTENDS Integers, Sequences, FiniteSets, TLC

(* ------------------------------ bounds --------------------------------- *)
\* number of distinct document contents (byte buffers) the user may upload
NumDocs == 2
\* largest page count of an uploaded PDF
MaxPages == 2

(* --------------------------- value domains ----------------------------- *)
\* Python None, where the other values are strings
None == "None"

\* filenames the user may give an upload
FileNames == {"a.pdf", "b.pdf"}

\* byte buffers: a readable PDF of 1..MaxPages pages, or an unreadable one
Buffers ==
    {[doc |-> d, valid |-> TRUE, pages |-> n] : d \in 1..NumDocs, n \in 1..MaxPages}
        \cup {[doc |-> d, valid |-> FALSE, pages |-> 0] : d \in 1..NumDocs}

\* the value of st.file_uploader: None or an UploadedFile (name, bytes)
NoFile == [none |-> TRUE]
Files == {[none |-> FALSE, name |-> n, bytes |-> b] : n \in FileNames, b \in Buffers}

\* st.session_state.pdf_content: None or a list of page payloads
NoContent == [none |-> TRUE]
Content(parts) == [none |-> FALSE, parts |-> parts]

\* the values of the job-description text area
JobDescriptions == {"", "Senior Python developer"}

\* the GOOGLE_API_KEY environment variable
ApiKeys == {"valid", "invalid", None}

\* a text element of the content list sent to the model
TextPart(s) == [text |-> s]

(* --------------------------- prompt catalog ---------------------------- *)
AnalysisTypes ==
    {"Fit Summary & Analysis", "Percentage Match", "Resume Parser", "Red Flags Checker"}

PROMPTS ==
    [t \in AnalysisTypes |->
        CASE t = "Fit Summary & Analysis" ->
                "You are a world-class resume evaluation expert and hiring manager"
          [] t = "Percentage Match" ->
                "You are an advanced Applicant Tracking System (ATS) simulator."
          [] t = "Resume Parser" ->
                "You are a highly accurate, machine-learning-powered resume parser."
          [] t = "Red Flags Checker" ->
                "You are an expert resume auditor for a top recruitment agency."]

(* ----------------------------- rasterizer ------------------------------ *)
\* pdf2image.convert_from_bytes: one image per page in page order, or raises
convert_from_bytes(bytes) ==
    IF bytes.valid
    THEN [raised |-> FALSE,
          images |-> [i \in 1..bytes.pages |-> [doc |-> bytes.doc, page |-> i]]]
    ELSE [raised |-> TRUE, images |-> <<>>]

\* image.save(buf, format='JPEG'); buf.getvalue()
save_jpeg(image) == [format |-> "JPEG", of |-> image]

\* base64.b64encode(b).decode()
b64encode(b) == [base64 |-> b]

\* the dict appended for one page image
page_part(image) ==
    [mime_type |-> "image/jpeg", data |-> b64encode(save_jpeg(image))]

\* a rasterizer that keeps the first page only
build_parts_first_only(images) ==
    IF images = <<>> THEN <<>> ELSE <<page_part(Head(images))>>

\* the loop `for image in images: ... pdf_parts.append({...})`
RECURSIVE build_parts(_)
build_parts(images) ==
    IF images = <<>> THEN <<>>
    ELSE <<page_part(Head(images))>> \o build_parts(Tail(images))

\* a cache-key test that never recognises the processed file
needs_processing_always(ss, f) ==
    TRUE

\* the cache-key test of process_and_store_pdf
needs_processing(ss, f) ==
    ss.processed_file_name # f.name

\* an except clause that only reports the error
on_processing_error_keep(ss) ==
    ss

\* the except clause of process_and_store_pdf
on_processing_error(ss) ==
    [ss EXCEPT !.pdf_content = NoContent]

\* process_and_store_pdf(uploaded_file) on session state ss
process_and_store_pdf(ss, f) ==
    IF f.none
    THEN [ss |-> [ss EXCEPT !.pdf_content = NoContent],
          outcome |-> "cleared", reported |-> 0]
    ELSE IF needs_processing(ss, f)
    THEN LET r == convert_from_bytes(f.bytes) IN
         IF r.raised
         THEN [ss |-> on_processing_error(ss), outcome |-> "failed", reported |-> 0]
         ELSE [ss |-> [pdf_content |-> Content(build_parts(r.images)),
                       processed_file_name |-> f.name],
               outcome |-> "ok", reported |-> Len(r.images)]
    ELSE [ss |-> ss, outcome |-> "skipped", reported |-> 0]

\* an upload handler that calls the rasterizer whatever the uploader holds
upload_handler_unguarded(ss, f) ==
    process_and_store_pdf(ss, f)

\* `if uploaded_file: process_and_store_pdf(uploaded_file)`
upload_handler(ss, f) ==
    IF ~f.none
    THEN process_and_store_pdf(ss, f)
    ELSE [ss |-> ss, outcome |-> "not_called", reported |-> 0]

(* -------------------------- inference client --------------------------- *)
\* what the remote side does with one call
InferenceOutcomes == {"ok", "model_error", "call_error", "text_error"}

\* a key the service rejects makes the call fail
OutcomesFor(key) ==
    IF key = "valid" THEN InferenceOutcomes ELSE {"model_error", "call_error"}

NothingSent == [requested |-> FALSE, content |-> <<>>]
ErrorString == [kind |-> "error", text |-> "An error occurred while calling the Gemini API: "]
ModelText == [kind |-> "text", text |-> "response.text"]
NoResponse == [kind |-> "none", text |-> ""]

\* a request builder that always appends the job description
content_to_send_always_jd(prompt, pdf_parts, job_description) ==
    <<TextPart(prompt)>> \o <<TextPart(job_description)>> \o pdf_parts

\* the list built by get_gemini_response before the call
content_to_send(prompt, pdf_parts, job_description) ==
    <<TextPart(prompt)>>
        \o (IF job_description # "" THEN <<TextPart(job_description)>> ELSE <<>>)
        \o pdf_parts

\* a client whose try block starts after the model is constructed
get_gemini_response_narrow_try(prompt, pdf_content, job_description, outcome) ==
    IF outcome = "model_error"
    THEN [ret |-> NoResponse, sent |-> NothingSent, raised |-> TRUE]
    ELSE IF pdf_content.none
    THEN [ret |-> ErrorString, sent |-> NothingSent, raised |-> FALSE]
    ELSE LET c == content_to_send(prompt, pdf_content.parts, job_description) IN
         [ret |-> IF outcome = "ok" THEN ModelText ELSE ErrorString,
          sent |-> [requested |-> TRUE, content |-> c], raised |-> FALSE]

\* get_gemini_response(prompt, pdf_parts, job_description)
get_gemini_response(prompt, pdf_content, job_description, outcome) ==
    IF outcome = "model_error"
    THEN [ret |-> ErrorString, sent |-> NothingSent, raised |-> FALSE]
    ELSE IF pdf_content.none
    THEN \* content_to_send.extend(None) raises TypeError inside the try
         [ret |-> ErrorString, sent |-> NothingSent, raised |-> FALSE]
    ELSE LET c == content_to_send(prompt, pdf_content.parts, job_description) IN
         [ret |-> IF outcome = "ok" THEN ModelText ELSE ErrorString,
          sent |-> [requested |-> TRUE, content |-> c], raised |-> FALSE]

(* ------------------------- presentation layer -------------------------- *)
\* a guard that lets every click through
Truthy_always(c) ==
    TRUE

\* Python truth value of pdf_content (None and [] are false)
Truthy(c) ==
    ~c.none /\ Len(c.parts) > 0

\* the body of `if st.button("Analyze Resume", ...)`
analyze_handler(ss, analysis_type, job_description, outcome) ==
    IF Truthy(ss.pdf_content)
    THEN LET g == get_gemini_response(PROMPTS[analysis_type], ss.pdf_content,
                                      job_description, outcome) IN
         [ss |-> ss, called |-> TRUE, at_call |-> ss,
          ret |-> g.ret, sent |-> g.sent, raised |-> g.raised,
          shown |-> IF g.raised THEN "none" ELSE "result"]
    ELSE [ss |-> ss, called |-> FALSE, at_call |-> ss,
          ret |-> NoResponse, sent |-> NothingSent, raised |-> FALSE,
          shown |-> "no_document"]

\* genai.configure(api_key=...) stores the key without validating it; it
\* raises only when the library itself is unusable
configure_raises(key, lib_ok) ==
    ~lib_ok

(* ------------------------------- state --------------------------------- *)
VARIABLES
    api_key,              \* os.getenv("GOOGLE_API_KEY")
    genai_ok,             \* whether the genai library can be configured
    uploaded_file,        \* value of the file uploader widget
    job_description,      \* value of the text area
    analysis_type,        \* value of the radio selector
    pdf_content,          \* st.session_state.pdf_content
    processed_file_name,  \* st.session_state.processed_file_name
    content_from,         \* name of the file whose rasterization filled pdf_content
    last                  \* what the most recent script run did and displayed

vars == <<api_key, genai_ok, uploaded_file, job_description, analysis_type,
          pdf_content, processed_file_name, content_from, last>>

\* the session state as the script sees it
session == [pdf_content |-> pdf_content, processed_file_name |-> processed_file_name]

\* a run stopped by st.stop() at startup
HaltedRun(ss) ==
    [halted |-> TRUE, proc |-> "not_called", reported |-> 0,
     had_cache |-> Truthy(ss.pdf_content), button |-> FALSE, called |-> FALSE,
     outcome |-> "none", at_call |-> ss, ret |-> NoResponse, sent |-> NothingSent,
     raised |-> FALSE, shown |-> "startup_error"]

\* one execution of the script, top to bottom
Script(ss, f, jd, t, button, outcome) ==
    IF configure_raises(api_key, genai_ok)
    THEN [ss |-> ss, run |-> HaltedRun(ss)]
    ELSE LET p == upload_handler(ss, f)
             a == IF button
                  THEN analyze_handler(p.ss, t, jd, outcome)
                  ELSE [ss |-> p.ss, called |-> FALSE, at_call |-> p.ss,
                        ret |-> NoResponse, sent |-> NothingSent,
                        raised |-> FALSE, shown |-> "none"]
         IN [ss |-> a.ss,
             run |-> [halted |-> FALSE, proc |-> p.outcome, reported |-> p.reported,
                      had_cache |-> Truthy(ss.pdf_content), button |-> button,
                      called |-> a.called,
                      outcome |-> IF a.called THEN outcome ELSE "none",
                      at_call |-> a.at_call, ret |-> a.ret,
                      sent |-> a.sent, raised |-> a.raised, shown |-> a.shown]]

\* the effect of a script run with the given widget values
Run(f, jd, t, button, outcome) ==
    LET s == Script(session, f, jd, t, button, outcome) IN
    /\ uploaded_file' = f
    /\ job_description' = jd
    /\ analysis_type' = t
    /\ pdf_content' = s.ss.pdf_content
    /\ processed_file_name' = s.ss.processed_file_name
    /\ content_from' = IF s.run.proc = "ok" THEN f.name ELSE content_from
    /\ last' = s.run
    /\ UNCHANGED <<api_key, genai_ok>>

\* the first script run of a session: lines 125-128 create both keys as None
Init ==
    /\ api_key \in ApiKeys
    /\ genai_ok \in BOOLEAN
    /\ uploaded_file = NoFile
    /\ job_description = ""
    /\ analysis_type = "Fit Summary & Analysis"
    /\ pdf_content = NoContent
    /\ processed_file_name = None
    /\ content_from = None
    /\ last = IF configure_raises(api_key, genai_ok)
              THEN HaltedRun([pdf_content |-> NoContent, processed_file_name |-> None])
              ELSE [halted |-> FALSE, proc |-> "not_called", reported |-> 0,
                    had_cache |-> FALSE, button |-> FALSE, called |-> FALSE,
                    outcome |-> "none",
                    at_call |-> [pdf_content |-> NoContent, processed_file_name |-> None],
                    ret |-> NoResponse, sent |-> NothingSent, raised |-> FALSE,
                    shown |-> "none"]

\* the widgets exist only when the last run was not stopped at startup
WidgetsShown == ~last.halted

\* the user puts a file into the uploader (replacing any file there)
Upload ==
    /\ WidgetsShown
    /\ \E f \in Files : Run(f, job_description, analysis_type, FALSE, "ok")

\* the user removes the file from the uploader
RemoveFile ==
    /\ WidgetsShown
    /\ ~uploaded_file.none
    /\ Run(NoFile, job_description, analysis_type, FALSE, "ok")

\* the user edits the job description
EditJobDescription ==
    /\ WidgetsShown
    /\ \E jd \in JobDescriptions \ {job_description} :
           Run(uploaded_file, jd, analysis_type, FALSE, "ok")

\* the user picks another analysis type
SelectAnalysisType ==
    /\ WidgetsShown
    /\ \E t \in AnalysisTypes \ {analysis_type} :
           Run(uploaded_file, job_description, t, FALSE, "ok")

\* the user clicks "Analyze Resume"
ClickAnalyze ==
    /\ WidgetsShown
    /\ \E o \in OutcomesFor(api_key) :
           Run(uploaded_file, job_description, analysis_type, TRUE, o)

\* the script is rerun with no widget changed
Rerun ==
    Run(uploaded_file, job_description, analysis_type, FALSE, "ok")

Next ==
    \/ Upload
    \/ RemoveFile
    \/ EditJobDescription
    \/ SelectAnalysisType
    \/ ClickAnalyze
    \/ Rerun

Spec == Init /\ [][Next]_vars

TypeOK ==
    /\ api_key \in ApiKeys
    /\ genai_ok \in BOOLEAN
    /\ uploaded_file \in Files \cup {NoFile}
    /\ job_description \in JobDescriptions
    /\ analysis_type \in AnalysisTypes
    /\ processed_file_name \in FileNames \cup {None}
    /\ content_from \in FileNames \cup {None}
    /\ last.proc \in {"not_called", "skipped", "ok", "failed"}

(* ------------------------------ properties ----------------------------- *)
\* whether a cached value is None or an empty list
Absent(c) == c.none \/ Len(c.parts) = 0

\* C1: the content submitted to the model is the template, then the job
\* description only if it is non-empty (at index 1), then the N cached page
\* payloads in order; its length is 1 + N or 2 + N accordingly.
C1_ContentLayout ==
    last.sent.requested =>
        LET c == last.sent.content
            pages == last.at_call.pdf_content.parts
            N == Len(pages)
        IN /\ c[1] = TextPart(PROMPTS[analysis_type])
           /\ job_description = "" =>
                 /\ Len(c) = 1 + N
                 /\ \A i \in 1..N : c[1 + i] = pages[i]
           /\ job_description # "" =>
                 /\ Len(c) = 2 + N
                 /\ c[2] = TextPart(job_description)
                 /\ \A i \in 1..N : c[2 + i] = pages[i]

\* a request with a job description and a multi-page resume was submitted
C1_Witness ==
    /\ last.sent.requested
    /\ job_description # ""
    /\ Len(last.at_call.pdf_content.parts) >= 2

\* C2: an Analyze click while pdf_content is None or empty calls no model,
\* sends nothing and shows the no-document error; every content sequence
\* that is sent holds at least one page payload.
C2_NoDocumentNoRequest ==
    /\ (last.button /\ ~last.halted /\ Absent(last.at_call.pdf_content)) =>
           /\ ~last.called
           /\ ~last.sent.requested
           /\ last.shown = "no_document"
    /\ last.sent.requested =>
           \E i \in 1..Len(last.sent.content) :
               /\ "mime_type" \in DOMAIN last.sent.content[i]
               /\ last.sent.content[i].mime_type = "image/jpeg"

\* Analyze was clicked with nothing cached
C2_Witness ==
    /\ last.button
    /\ ~last.halted
    /\ Absent(pdf_content)
    /\ last.shown = "no_document"

\* C3: a run in which rasterization fails leaves pdf_content None, and an
\* Analyze in that run sends no request (so no pages of an earlier document).
C3_FailureClearsCache ==
    last.proc = "failed" =>
        /\ pdf_content.none
        /\ ~last.sent.requested
        /\ last.button => last.shown = "no_document"

\* Analyze was clicked while the uploaded file fails to rasterize, after an
\* earlier document had been cached
C3_Witness ==
    /\ last.proc = "failed"
    /\ last.button
    /\ content_from # None

\* C5: a call of get_gemini_response yields exactly one result, the model's
\* text when the remote side succeeds and the error string when model
\* construction, the call or reading the text fails; nothing propagates and
\* the session state is what it was at the call.
C5_OneOutcome ==
    last.called =>
        /\ ~last.raised
        /\ last.shown = "result"
        /\ last.outcome = "ok" => last.ret = ModelText
        /\ last.outcome \in InferenceOutcomes \ {"ok"} => last.ret = ErrorString
        /\ session = last.at_call

\* model construction failed during an analysis
C5_Witness ==
    /\ last.called
    /\ last.outcome = "model_error"
    /\ last.ret.kind = "error"

\* C6: a processed valid PDF of N pages stores exactly N payloads, the i-th
\* made from page i, each image/jpeg, and the reported page count is N.
C6_AllPagesStored ==
    last.proc = "ok" =>
        LET b == uploaded_file.bytes
            parts == pdf_content.parts
        IN /\ b.valid
           /\ Len(parts) = b.pages
           /\ last.reported = b.pages
           /\ \A i \in 1..b.pages :
                 /\ parts[i].mime_type = "image/jpeg"
                 /\ parts[i].data.base64.format = "JPEG"
                 /\ parts[i].data.base64.of = [doc |-> b.doc, page |-> i]

\* a multi-page PDF was processed
C6_Witness ==
    /\ last.proc = "ok"
    /\ uploaded_file.bytes.pages >= 2

\* C8: a run whose uploaded file is named processed_file_name rasterizes
\* nothing and leaves pdf_content and processed_file_name as they were.
C8_SameNameSkips ==
    [][(~uploaded_file'.none /\ ~last'.halted
            /\ uploaded_file'.name = processed_file_name) =>
        /\ last'.proc = "skipped"
        /\ pdf_content' = pdf_content
        /\ processed_file_name' = processed_file_name]_vars

\* a file of other content was uploaded under the processed name
C8_Witness ==
    /\ last.proc = "skipped"
    /\ ~pdf_content.none
    /\ pdf_content.parts[1].data.base64.of.doc # uploaded_file.bytes.doc

\* C9: a run that does not bring a new file (analysis, job-description edit,
\* analysis-type change, removal of the file) leaves both cache variables
\* unchanged.
C9_CacheFrame ==
    [][(uploaded_file' = uploaded_file \/ uploaded_file'.none) =>
        /\ pdf_content' = pdf_content
        /\ processed_file_name' = processed_file_name]_vars

\* the file was removed, an analysis failed, and the pages are still cached
C9_Witness ==
    /\ uploaded_file.none
    /\ last.called
    /\ last.ret.kind = "error"
    /\ ~Absent(pdf_content)

\* C4 as stated: replacing the uploaded file by one of another name always
\* makes the run rasterize the new file.
C4_Original ==
    [][(~uploaded_file.none /\ ~uploaded_file'.none /\ ~last'.halted
            /\ uploaded_file'.name # uploaded_file.name) =>
        last'.proc \in {"ok", "failed"}]_vars

\* C7 as stated: with an absent or invalid key no upload is processed and no
\* inference request is attempted.
C7_Original ==
    api_key # "valid" =>
        /\ last.proc = "not_called"
        /\ ~last.called
        /\ ~last.sent.requested

\* C10 as stated: non-empty pdf_content comes from the file named
\* processed_file_name, and while processed_file_name names the uploaded file
\* the cache is not empty.
C10_Original ==
    /\ ~Absent(pdf_content) => content_from = processed_file_name
    /\ (~uploaded_file.none /\ ~last.halted
            /\ processed_file_name = uploaded_file.name) => ~Absent(pdf_content)
====
